---- MODULE Spec2Model ----
(***************************************************************************)
(* Model of skills/watermark/watermark.py: the file processor              *)
(* (process_file), the directory walker (process_directory) and the CLI    *)
(* entry point (main), over an explicit file system.  Paths are character  *)
(* strings exactly as the program builds them (os.path.join, splitext,     *)
(* basename, relpath, `+ ".tmp"`, str.replace); the file system is keyed   *)
(* by the normalised path.  The three format handlers are black boxes      *)
(* whose outcome (success, failure before writing, failure after a         *)
(* partial write) is chosen nondeterministically.                          *)
(***************************************************************************)
EXTENDS Integers, Sequences, FiniteSets, TLC

VARIABLES fs, dirs, args, pc, stack, cur, pending, results, exit, raised,
          tally, calls, outs, last, fs0, written, ndel

vars == <<fs, dirs, args, pc, stack, cur, pending, results, exit, raised,
          tally, calls, outs, last, fs0, written, ndel>>

(***************************************************************************)
(* Bounds                                                                  *)
(***************************************************************************)
\* number of files an external actor may delete during one directory walk
MaxExternal == 1

(***************************************************************************)
(* Strings (Python str) and POSIX paths (os.path)                          *)
(***************************************************************************)
None == "<None>"

Ch(s, i) == SubSeq(s, i, i)

\* str.startswith
startswith(s, p) == Len(s) >= Len(p) /\ SubSeq(s, 1, Len(p)) = p

endswith(s, p) == Len(s) >= Len(p) /\ SubSeq(s, Len(s) - Len(p) + 1, Len(s)) = p

\* str.rfind for a single character, 1-based; 0 when absent
rfind(s, c) ==
  LET hits == {i \in 1..Len(s) : Ch(s, i) = c}
  IN  IF hits = {} THEN 0 ELSE CHOOSE i \in hits : \A j \in hits : j <= i

UpperChars == "ABCDEFGHIJKLMNOPQRSTUVWXYZ"
LowerChars == "abcdefghijklmnopqrstuvwxyz"

lowerCh(c) ==
  LET hits == {i \in 1..26 : Ch(UpperChars, i) = c}
  IN  IF hits = {} THEN c ELSE Ch(LowerChars, CHOOSE i \in hits : TRUE)

\* str.lower
RECURSIVE lower(_)
lower(s) ==
  IF s = "" THEN ""
  ELSE lowerCh(Ch(s, 1)) \o lower(SubSeq(s, 2, Len(s)))

\* str.replace(old, ""): leftmost non-overlapping occurrences removed
RECURSIVE replaceWithEmpty(_, _)
replaceWithEmpty(s, old) ==
  IF Len(s) < Len(old) THEN s
  ELSE IF startswith(s, old)
       THEN replaceWithEmpty(SubSeq(s, Len(old) + 1, Len(s)), old)
       ELSE Ch(s, 1) \o replaceWithEmpty(SubSeq(s, 2, Len(s)), old)

\* os.path.basename
basename(p) == SubSeq(p, rfind(p, "/") + 1, Len(p))

\* os.path.splitext (genericpath._splitext): a leading run of dots in the
\* last component does not start an extension
splitext(p) ==
  LET sepIndex == rfind(p, "/")
      dotIndex == rfind(p, ".")
      nondot   == \E k \in (sepIndex + 1)..(dotIndex - 1) : Ch(p, k) # "."
  IN  IF dotIndex > sepIndex /\ nondot
      THEN <<SubSeq(p, 1, dotIndex - 1), SubSeq(p, dotIndex, Len(p))>>
      ELSE <<p, "">>

\* os.path.join(a, b)
join(a, b) ==
  IF startswith(b, "/") THEN b
  ELSE IF a = "" \/ endswith(a, "/") THEN a \o b
  ELSE a \o "/" \o b

\* str.split("/")
RECURSIVE split(_)
split(p) ==
  LET hits == {i \in 1..Len(p) : Ch(p, i) = "/"}
  IN  IF hits = {} THEN <<p>>
      ELSE LET i == CHOOSE k \in hits : \A j \in hits : k <= j
           IN  <<SubSeq(p, 1, i - 1)>> \o split(SubSeq(p, i + 1, Len(p)))

\* os.path.normpath on the component list: empty and "." components are
\* dropped, ".." removes the component before it
RECURSIVE normComps(_, _)
normComps(cs, acc) ==
  IF cs = <<>> THEN acc
  ELSE LET c == Head(cs)
       IN  IF c = "" \/ c = "." THEN normComps(Tail(cs), acc)
           ELSE IF c = ".." /\ acc # <<>> /\ acc[Len(acc)] # ".."
                THEN normComps(Tail(cs), SubSeq(acc, 1, Len(acc) - 1))
                ELSE normComps(Tail(cs), Append(acc, c))

Comps(p) == normComps(split(p), <<>>)

RECURSIVE joinComps(_)
joinComps(cs) ==
  IF cs = <<>> THEN ""
  ELSE IF Len(cs) = 1 THEN cs[1]
  ELSE cs[1] \o "/" \o joinComps(Tail(cs))

\* the file-system key of a path: its normalised form ("." for the cwd)
Norm(p) == IF Comps(p) = <<>> THEN "." ELSE joinComps(Comps(p))

\* os.path.relpath(path, start)
relpath(path, start) ==
  LET start_list == Comps(start)
      path_list  == Comps(path)
      m          == IF Len(start_list) < Len(path_list)
                    THEN Len(start_list) ELSE Len(path_list)
      agree      == {k \in 0..m : \A j \in 1..k : start_list[j] = path_list[j]}
      i          == CHOOSE k \in agree : \A j \in agree : j <= k
      rel_list   == [j \in 1..(Len(start_list) - i) |-> ".."]
                    \o SubSeq(path_list, i + 1, Len(path_list))
  IN  IF rel_list = <<>> THEN "." ELSE joinComps(rel_list)

\* the directory holding a normalised path
Parent(p) ==
  LET cs == Comps(p)
  IN  IF Len(cs) <= 1 THEN "." ELSE joinComps(SubSeq(cs, 1, Len(cs) - 1))

(***************************************************************************)
(* The file system: fs maps the normalised path of every regular file to   *)
(* its content, dirs is the set of existing directories.  A content is the *)
(* document's origin and the number of watermarks stamped on it.           *)
(***************************************************************************)
Garbage == [src |-> "<partial>", wm |-> 0]

\* what a handler's successful run makes of a document
Wm(c) == [src |-> c.src, wm |-> c.wm + 1]

FsPut(f, k, v) == [p \in DOMAIN f \cup {k} |-> IF p = k THEN v ELSE f[p]]

FsDel(f, k) == [p \in DOMAIN f \ {k} |-> f[p]]

\* os.path.exists / os.path.isfile
exists(f, d, p) == Norm(p) \in DOMAIN f \/ Norm(p) \in d

isfile(f, p) == Norm(p) \in DOMAIN f

\* os.rename(src, dst) of a regular file, with POSIX semantics: an existing
\* file at dst is replaced; a missing source, a missing parent of dst or a
\* directory at dst raises OSError (ok = FALSE)
rename(f, d, src, dst) ==
  LET s  == Norm(src)
      t  == Norm(dst)
      ok == s \in DOMAIN f /\ Parent(t) \in d /\ t \notin d
  IN  [ok |-> ok,
       fs |-> IF ok /\ s # t THEN FsPut(FsDel(f, s), t, f[s]) ELSE f]

\* os.remove(path)
remove(f, path) ==
  LET s == Norm(path)
  IN  [ok |-> s \in DOMAIN f, fs |-> IF s \in DOMAIN f THEN FsDel(f, s) ELSE f]

\* os.makedirs(name, exist_ok=True): every missing ancestor is created in
\* turn; a component that is a regular file raises, after the components
\* before it were created
makedirs(f, d, name) ==
  LET cs     == Comps(name)
      pre(k) == joinComps(SubSeq(cs, 1, k))
      bad    == {k \in 1..Len(cs) : pre(k) \in DOMAIN f}
      upto   == IF bad = {} THEN Len(cs)
                ELSE (CHOOSE k \in bad : \A j \in bad : k <= j) - 1
  IN  [ok |-> bad = {}, dirs |-> d \cup {pre(k) : k \in 1..upto}]

(***************************************************************************)
(* Format handlers: add_watermark_pdf / _docx / _xlsx.  Each reads the     *)
(* whole input, then writes the output; every exception is caught and      *)
(* turned into False.  h is the run's fate when input and output are       *)
(* usable: "ok", "fail" (nothing written: corrupt input, missing library)  *)
(* or "partial" (the write failed half-way).                               *)
(***************************************************************************)
Fates == {"ok", "fail", "partial"}

add_watermark(f, d, input_path, output_path, h) ==
  LET i        == Norm(input_path)
      o        == Norm(output_path)
      readable == i \in DOMAIN f /\ f[i] # Garbage
      writable == Parent(o) \in d /\ o \notin d
      fate     == IF readable /\ writable THEN h ELSE "fail"
  IN  [success |-> fate = "ok",
       wrote   |-> fate # "fail",
       fs      |-> IF fate = "ok" THEN FsPut(f, o, Wm(f[i]))
                   ELSE IF fate = "partial" THEN FsPut(f, o, Garbage)
                   ELSE f]

(***************************************************************************)
(* process_file                                                            *)
(***************************************************************************)
\* Python truthiness of an optional string argument
Truthy(s) == s # None /\ s # ""

supported_exts == {".pdf", ".docx", ".xlsx"}

\* OutputMode with the first two tests in the other order
OutputMode_overwrite_first(output_dir, overwrite) ==
  IF overwrite THEN "overwrite"
  ELSE IF Truthy(output_dir) THEN "dir"
  ELSE "sibling"

\* the branch taken by the if / elif / else that resolves the output path
OutputMode(output_dir, overwrite) ==
  IF Truthy(output_dir) THEN "dir"
  ELSE IF overwrite THEN "overwrite"
  ELSE "sibling"

\* output-path resolution: the output path, the handler's input path, the
\* file system after makedirs / the backup rename, and whether that raised
ResolveOutput(f, d, file_path, output_dir, overwrite) ==
  LET mode == OutputMode(output_dir, overwrite)
  IN  IF mode = "dir"
      THEN LET mk == makedirs(f, d, output_dir)
           IN  [ok |-> mk.ok, fs |-> f, dirs |-> mk.dirs, ops |-> <<"makedirs">>,
                output_path |-> join(output_dir, basename(file_path)),
                input_path |-> file_path, mode |-> mode]
      ELSE IF mode = "overwrite"
      THEN LET temp_path == file_path \o ".tmp"
               rn        == rename(f, d, file_path, temp_path)
           IN  [ok |-> rn.ok, fs |-> rn.fs, dirs |-> d, ops |-> <<"backup">>,
                output_path |-> file_path,
                input_path |-> temp_path, mode |-> mode]
      ELSE LET se == splitext(file_path)
           IN  [ok |-> TRUE, fs |-> f, dirs |-> d, ops |-> <<>>,
                output_path |-> se[1] \o "_watermarked" \o se[2],
                input_path |-> file_path, mode |-> mode]

\* where the failure branch of the cleanup renames the backup to
RestoreTarget(output_path) == replaceWithEmpty(output_path, ".tmp")

\* overwrite-mode cleanup after the handler call
Cleanup(f, d, input_path, output_path, output_dir, overwrite, success) ==
  IF overwrite /\ ~Truthy(output_dir)
  THEN IF success
       THEN LET rm == remove(f, input_path)
            IN  [ok |-> rm.ok, fs |-> rm.fs, ops |-> <<"remove">>]
       ELSE LET rn == rename(f, d, input_path, RestoreTarget(output_path))
            IN  [ok |-> rn.ok, fs |-> rn.fs, ops |-> <<"restore">>]
  ELSE [ok |-> TRUE, fs |-> f, ops |-> <<>>]

\* The result of a call.  ret is "True", "False" or "raise" (an OSError left
\* uncaught); ops lists the file-system steps and handler calls made.
Result(ro, f, ret, ops, success, wrote) ==
  [fs |-> f, dirs |-> ro.dirs, ret |-> ret, ops |-> ro.ops \o ops,
   mode |-> ro.mode, output_path |-> ro.output_path,
   success |-> success, wrote |-> wrote]

\* return success, after the cleanup (which may raise)
Finish(ro, hd, cl) ==
  Result(ro, cl.fs,
         IF ~cl.ok THEN "raise" ELSE IF hd.success THEN "True" ELSE "False",
         <<"handler">> \o cl.ops, hd.success, hd.wrote)

\* the handler has run: the cleanup follows
AfterHandler(ro, hd, output_dir, overwrite) ==
  Finish(ro, hd, Cleanup(hd.fs, ro.dirs, ro.input_path, ro.output_path,
                         output_dir, overwrite, hd.success))

\* the dispatch on the extension; an unknown one returns False at once
Dispatch(ro, ext, output_dir, overwrite, h) ==
  IF ~ro.ok THEN Result(ro, ro.fs, "raise", <<>>, FALSE, FALSE)
  ELSE IF ext \notin supported_exts
  THEN Result(ro, ro.fs, "False", <<>>, FALSE, FALSE)
  ELSE AfterHandler(ro, add_watermark(ro.fs, ro.dirs, ro.input_path,
                                      ro.output_path, h),
                    output_dir, overwrite)

\* the whole call
process_file(f, d, file_path, output_dir, overwrite, h) ==
  Dispatch(ResolveOutput(f, d, file_path, output_dir, overwrite),
           lower(splitext(file_path)[2]), output_dir, overwrite, h)

(***************************************************************************)
(* Initial states: a directory tree and a command line                     *)
(***************************************************************************)
Doc(p) == [src |-> p, wm |-> 0]

Tree(ds, files) == [dirs |-> ds \cup {"."}, fs |-> [p \in files |-> Doc(p)]]

\* the example tree of the specification, with a pruned hidden directory, a
\* lock file and an upper-case extension
TreeExample ==
  Tree({"r", "r/sub", "r/.git"},
       {"r/a.pdf", "r/b.docx", "r/c.txt", "r/.hidden.xlsx", "r/~$b.docx",
        "r/sub/d.XLSX", "r/.git/e.pdf"})

\* names that contain ".tmp"
TreeTmp ==
  Tree({"r", "r/x.tmp", "r/x"}, {"r/a.tmp.pdf", "r/x.tmp/f.pdf"})

\* a tree that already holds a directory named out, with a file in it
TreeOut ==
  Tree({"r", "r/out", "r/sub"},
       {"r/a.pdf", "r/sub/b.docx", "r/c.txt", "r/out/a.pdf"})

Trees == {TreeExample, TreeTmp, TreeOut}

DirectoryArgs == {None, "r", "nope"}

PathArgs == {None, "r", "r/a.pdf", "r/c.txt", "r/a.tmp.pdf", "r/sub/d.XLSX"}

OutputArgs == {None, "out", "r/out", "r", "r/sub", "r/c.txt"}

NoCall ==
  [path |-> None, root |-> None, output_dir |-> None, pre |-> Garbage,
   had_tmp |-> FALSE, had_out |-> FALSE, ret |-> None, ops |-> <<>>,
   mode |-> None, output_path |-> None, success |-> FALSE]

Init ==
  /\ \E t \in Trees : fs = t.fs /\ dirs = t.dirs
  /\ \E d \in DirectoryArgs, p \in PathArgs, o \in OutputArgs, w \in BOOLEAN :
       /\ d # None => p = None
       /\ args = [path |-> p, directory |-> d, output |-> o, overwrite |-> w]
  /\ pc = "start"
  /\ stack = <<>>
  /\ cur = None
  /\ pending = {}
  /\ results = [success |-> 0, failed |-> 0]
  /\ exit = -1
  /\ raised = FALSE
  /\ tally = FALSE
  /\ calls = [p \in {} |-> 0]
  /\ outs = [p \in {} |-> None]
  /\ last = NoCall
  /\ fs0 = fs
  /\ written = {}
  /\ ndel = 0

(***************************************************************************)
(* main                                                                    *)
(***************************************************************************)
\* the target chosen from --directory and the positional path
Target(a) ==
  IF Truthy(a.directory) THEN a.directory
  ELSE IF Truthy(a.path) THEN a.path
  ELSE None

\* bookkeeping of one process_file call: the call's record, the set of paths
\* its handler wrote, the number of calls made on each path and the output
\* path resolved for it
Record(file_path, root, output_dir, r) ==
  [path |-> file_path, root |-> root, output_dir |-> output_dir,
   pre |-> IF isfile(fs, file_path) THEN fs[Norm(file_path)] ELSE Garbage,
   had_tmp |-> isfile(fs, file_path \o ".tmp"),
   had_out |-> isfile(fs, r.output_path),
   ret |-> r.ret, ops |-> r.ops, mode |-> r.mode,
   output_path |-> r.output_path, success |-> r.success]

Count(c, p) == IF p \in DOMAIN c THEN c[p] ELSE 0

Called(file_path, root, output_dir, r) ==
  /\ fs' = r.fs
  /\ dirs' = r.dirs
  /\ last' = Record(file_path, root, output_dir, r)
  /\ calls' = FsPut(calls, Norm(file_path), Count(calls, Norm(file_path)) + 1)
  /\ outs' = FsPut(outs, Norm(file_path), Norm(r.output_path))
  /\ written' = IF r.wrote THEN written \cup {Norm(r.output_path)} ELSE written

\* no --directory and no path: print the help, exit 1
MainNoTarget ==
  /\ pc = "start"
  /\ Target(args) = None
  /\ pc' = "exited"
  /\ exit' = 1
  /\ UNCHANGED <<fs, dirs, args, stack, cur, pending, results, raised, tally,
                 calls, outs, last, fs0, written, ndel>>

\* the target does not exist: print an error, exit 1
MainMissing ==
  /\ pc = "start"
  /\ Target(args) # None
  /\ ~exists(fs, dirs, Target(args))
  /\ pc' = "exited"
  /\ exit' = 1
  /\ UNCHANGED <<fs, dirs, args, stack, cur, pending, results, raised, tally,
                 calls, outs, last, fs0, written, ndel>>

\* the target is a regular file: one process_file call decides the exit
\* status; an uncaught exception ends the interpreter with status 1
MainExit(r) ==
  /\ exit' = (IF r.ret = "True" THEN 0 ELSE 1)
  /\ raised' = (r.ret = "raise")

MainCall(file_path, r) ==
  /\ Called(file_path, None, args.output, r)
  /\ MainExit(r)

MainFile ==
  /\ pc = "start"
  /\ Target(args) # None
  /\ exists(fs, dirs, Target(args))
  /\ isfile(fs, Target(args))
  /\ \E h \in Fates :
       MainCall(Target(args),
                process_file(fs, dirs, Target(args), args.output,
                             args.overwrite, h))
  /\ pc' = "exited"
  /\ UNCHANGED <<args, stack, cur, pending, results, tally, fs0, ndel>>

\* the target is a directory: process_directory starts its os.walk
MainDir ==
  /\ pc = "start"
  /\ Target(args) # None
  /\ exists(fs, dirs, Target(args))
  /\ ~isfile(fs, Target(args))
  /\ pc' = "walk"
  /\ stack' = <<Target(args)>>
  /\ UNCHANGED <<fs, dirs, args, cur, pending, results, exit, raised, tally,
                 calls, outs, last, fs0, written, ndel>>

(***************************************************************************)
(* process_directory                                                       *)
(***************************************************************************)
\* names of the regular files / subdirectories that scandir(top) lists
ListFiles(f, top) == {basename(p) : p \in {q \in DOMAIN f : Parent(q) = Norm(top)}}

ListDirs(d, top) ==
  {basename(p) : p \in {q \in d : q # "." /\ q # Norm(top) /\ Parent(q) = Norm(top)}}

\* dirs[:] = [d for d in dirs if not d.startswith('.')]
KeepDir(name) == ~startswith(name, ".")

\* the two `continue` tests of the loop over files
KeepFile(name) ==
  /\ ~(startswith(name, "~$") \/ startswith(name, "."))
  /\ lower(splitext(name)[2]) \in supported_exts

\* FileOutputDir without the relative path: every file lands in output_dir
FileOutputDir_flat(output_dir, root, dir_path) ==
  IF Truthy(output_dir) THEN output_dir ELSE None

\* the per-file output directory: output_dir joined with the directory's path
\* relative to the walk's root
FileOutputDir(output_dir, root, dir_path) ==
  IF Truthy(output_dir) THEN join(output_dir, relpath(root, dir_path))
  ELSE None

\* all orders in which scandir may list a set of names
RECURSIVE Orders(_)
Orders(S) ==
  IF S = {} THEN {<<>>}
  ELSE UNION {{<<x>> \o o : o \in Orders(S \ {x})} : x \in S}

\* os.walk, top-down: the next directory is listed, its hidden
\* subdirectories are pruned, the others are queued to be walked (depth
\* first, in the order scandir listed them) after the directory's files
WalkDir ==
  /\ pc = "walk"
  /\ pending = {}
  /\ stack # <<>>
  /\ LET top  == Head(stack)
         subs == {n \in ListDirs(dirs, top) : KeepDir(n)}
     IN  /\ cur' = top
         /\ pending' = {n \in ListFiles(fs, top) : KeepFile(n)}
         /\ \E o \in Orders(subs) :
              stack' = [i \in 1..Len(o) |-> join(top, o[i])] \o Tail(stack)
  /\ UNCHANGED <<fs, dirs, args, pc, results, exit, raised, tally, calls, outs,
                 last, fs0, written, ndel>>

\* one iteration of the loop over files that passed the filters: the
\* process_file call and the tally; an exception leaves process_directory
\* and main uncaught
Tallied(r) ==
  /\ results' = IF r.ret = "True"
                THEN [results EXCEPT !.success = @ + 1]
                ELSE IF r.ret = "False"
                THEN [results EXCEPT !.failed = @ + 1]
                ELSE results
  /\ pc' = IF r.ret = "raise" THEN "exited" ELSE pc
  /\ exit' = IF r.ret = "raise" THEN 1 ELSE exit
  /\ raised' = (r.ret = "raise")

WalkCalled(file_path, out_dir, r) ==
  /\ Called(file_path, cur, out_dir, r)
  /\ Tallied(r)

WalkCall(file_path, out_dir, h) ==
  WalkCalled(file_path, out_dir,
             process_file(fs, dirs, file_path, out_dir, args.overwrite, h))

ProcessNext ==
  /\ pc = "walk"
  /\ \E f \in pending, h \in Fates :
       /\ WalkCall(join(cur, f),
                   FileOutputDir(args.output, cur, Target(args)), h)
       /\ pending' = pending \ {f}
  /\ UNCHANGED <<args, stack, cur, tally, fs0, ndel>>

\* the walk is over: main prints the tally and falls off its end
WalkDone ==
  /\ pc = "walk"
  /\ pending = {}
  /\ stack = <<>>
  /\ pc' = "exited"
  /\ exit' = 0
  /\ tally' = TRUE
  /\ UNCHANGED <<fs, dirs, args, stack, cur, pending, results, raised, calls, outs,
                 last, fs0, written, ndel>>

\* the file system is not locked: another process deletes a file that was
\* listed and is not yet processed
External ==
  /\ pc = "walk"
  /\ ndel < MaxExternal
  /\ \E f \in pending :
       /\ isfile(fs, join(cur, f))
       /\ fs' = FsDel(fs, Norm(join(cur, f)))
  /\ ndel' = ndel + 1
  /\ UNCHANGED <<dirs, args, pc, stack, cur, pending, results, exit, raised,
                 tally, calls, outs, last, fs0, written>>

Next ==
  \/ MainNoTarget
  \/ MainMissing
  \/ MainFile
  \/ MainDir
  \/ WalkDir
  \/ ProcessNext
  \/ WalkDone
  \/ External

Spec == Init /\ [][Next]_vars

(***************************************************************************)
(* Vocabulary of the properties                                            *)
(***************************************************************************)
\* the run is process_directory on an existing directory
DirRun == Target(args) # None /\ Norm(Target(args)) \in dirs

\* the run is a single process_file call on an existing regular file
FileRun == Target(args) # None /\ Norm(Target(args)) \in DOMAIN fs0

\* a process_file call is made in this step
CallStep == calls' # calls

HasExt(name, e) == endswith(lower(name), e)

\* p is a file under root, outside every hidden subdirectory, whose name is
\* neither hidden nor a lock file and carries a supported extension
Matches(p, root) ==
  LET rc == Comps(root)
      cs == Comps(p)
  IN  /\ Len(cs) > Len(rc)
      /\ SubSeq(cs, 1, Len(rc)) = rc
      /\ \A k \in (Len(rc) + 1)..Len(cs) : ~startswith(cs[k], ".")
      /\ ~startswith(cs[Len(cs)], "~$")
      /\ \E e \in {".pdf", ".docx", ".xlsx"} : HasExt(cs[Len(cs)], e)

\* the matching files present when the walk starts
Matching0 == {p \in DOMAIN fs0 : Matches(p, Target(args))}

RECURSIVE Total(_)
Total(c) ==
  IF DOMAIN c = {} THEN 0
  ELSE LET p == CHOOSE q \in DOMAIN c : TRUE
       IN  c[p] + Total(FsDel(c, p))

\* the place of a source file in the mirrored tree: outputDir followed by the
\* file's path below the walk's root
MirrorOf(path) ==
  joinComps(Comps(args.output)
            \o SubSeq(Comps(path), Len(Comps(Target(args))) + 1,
                      Len(Comps(path))))

Ops(c) == {c.ops[k] : k \in 1..Len(c.ops)}

(***************************************************************************)
(* Properties                                                              *)
(***************************************************************************)
\* C1: overwrite mode, the handler fails and the call returns: the original
\* path exists again and holds its pre-call content.
C1_RestoredOnFailure ==
  (/\ last.mode = "overwrite"
   /\ "handler" \in Ops(last)
   /\ last.ret = "False")
  => /\ isfile(fs, last.path)
     /\ fs[Norm(last.path)] = last.pre

\* C2: overwrite mode, on every return path of process_file (True or False):
\* no <path>.tmp made by the call is left on disk.
C2_NoBackupLeft ==
  (/\ last.mode = "overwrite"
   /\ last.ret \in {"True", "False"}
   /\ ~last.had_tmp)
  => ~isfile(fs, last.path \o ".tmp")

\* C3: process_directory never raises: every per-file error becomes a False
\* result counted in failedCount and the walk goes on.
C3_WalkNeverRaises == DirRun => ~raised

\* C4: when process_directory returns, the files it passed to process_file
\* are exactly the matching files of the tree, each passed once, and
\* successCount + failedCount is their number.
C4_SelectionAndTally ==
  (DirRun /\ pc = "exited" /\ ~raised)
  => /\ calls = [p \in Matching0 |-> 1]
     /\ results.success + results.failed = Cardinality(Matching0)

\* C5: directory walk with outputDir: a file processed successfully has its
\* watermarked copy at outputDir/<rel>/<name>, in a directory that exists,
\* and no two source files were given the same output path.
C5_MirroredOutput ==
  [][(CallStep /\ last'.root # None /\ last'.mode = "dir")
     => /\ last'.ret = "True"
           => /\ Norm(last'.output_path) = MirrorOf(last'.path)
              /\ Parent(MirrorOf(last'.path)) \in dirs'
              /\ isfile(fs', MirrorOf(last'.path))
              /\ fs'[MirrorOf(last'.path)] = Wm(last'.pre)
        /\ \A p \in DOMAIN outs', q \in DOMAIN outs' :
              p # q => outs'[p] # outs'[q]]_vars

\* C5 witness: a file of a subdirectory was processed successfully into the
\* mirrored tree.
C5_Witness ==
  /\ last.root # None
  /\ last.mode = "dir"
  /\ last.ret = "True"
  /\ Len(Comps(last.path)) > Len(Comps(Target(args))) + 1
  /\ isfile(fs, MirrorOf(last.path))
  /\ Cardinality(DOMAIN outs) >= 2

\* C6: outputDir and overwrite both given: output-dir mode is used, the
\* output path is outputDir/<basename>, the source is not renamed to
\* <path>.tmp and neither cleanup step runs.
C6_OutputDirPrecedence ==
  (last.path # None /\ Truthy(last.output_dir) /\ args.overwrite)
  => /\ last.mode = "dir"
     /\ Comps(last.output_path)
          = Comps(last.output_dir) \o <<Comps(last.path)[Len(Comps(last.path))]>>
     /\ Ops(last) \cap {"backup", "remove", "restore"} = {}
     /\ isfile(fs, last.path \o ".tmp") => last.had_tmp

\* C6 witness: a call with both options that ran the handler successfully.
C6_Witness ==
  /\ last.path # None
  /\ Truthy(last.output_dir)
  /\ args.overwrite
  /\ last.ret = "True"
  /\ Norm(last.output_path) # Norm(last.path)
  /\ isfile(fs, last.path)

\* C7: a single-file target with an unsupported extension, in every output
\* mode: process_file returns False without calling a handler, creates no
\* output file, and the process exits with status 1.
C7_UnsupportedExtension ==
  (/\ pc = "exited"
   /\ FileRun
   /\ \A e \in {".pdf", ".docx", ".xlsx"} : ~HasExt(Target(args), e))
  => /\ last.ret = "False"
     /\ "handler" \notin Ops(last)
     /\ isfile(fs, last.output_path) => last.had_out
     /\ exit = 1

\* C8: exit status 1 without a target, for a missing target and for a
\* single-file call that returns False; a directory target always ends with
\* the tally printed and exit status 0.
C8_ExitStatus ==
  pc = "exited"
  => /\ Target(args) = None => exit = 1
     /\ (Target(args) # None /\ ~DirRun /\ ~FileRun) => exit = 1
     /\ (FileRun /\ last.ret = "False") => exit = 1
     /\ DirRun => (exit = 0 /\ tally)

\* C9: outside overwrite mode the resolved output path differs from the
\* source path and the source keeps its pre-call content.
C9_SourceUntouched ==
  [][(CallStep /\ last'.mode \in {"dir", "sibling"} /\ last'.pre # Garbage)
     => /\ Norm(last'.output_path) # Norm(last'.path)
        /\ isfile(fs', last'.path)
        /\ fs'[Norm(last'.path)] = last'.pre]_vars

\* C10: no file written by the walk is later passed to process_file by the
\* same walk, and a walk that returns made as many process_file calls as
\* there were matching files when it started.
C10_NoOwnOutputs ==
  [][/\ (CallStep /\ last'.root # None) => Norm(last'.path) \notin written
     /\ (DirRun /\ pc' = "exited" /\ ~raised')
          => Total(calls') = Cardinality(Matching0)]_vars

====
